---- MODULE Spec2Model ----
(***************************************************************************)
(* BitFlow trading bot: the live trading controller (BitFlowBot), the     *)
(* order manager's fill monitoring and the ML risk manager's TP/SL        *)
(* derivation, as a state machine.                                         *)
(*                                                                         *)
(* Fixed-point units used for the JavaScript doubles:                      *)
(*   prices, highs, lows, closes, ATR        cents          (1e-2 dollar)  *)
(*   stopLoss, takeProfit, distances         milli-cents    (1e-5 dollar)  *)
(*   percentages (0.5 % = 500)               1e-3 percent                  *)
(*   returns, volatility (0.05 = 5000)       1e-5                          *)
(*   factors (1.5 = 1500)                    1e-3                          *)
(*   fee rates (0.0025 = 25)                 1e-4                          *)
(*   quantities (0.001 = 1)                  1e-3 coin                     *)
(***************************************************************************)
EXTENDS Integers, Sequences, FiniteSets, TLC

(***************************************************************************)
(* Bounds of the model                                                     *)
(***************************************************************************)
\* length of the optimized moving average (the optimizer picks 5..30)
MaLength == 2
\* number of status polls monitorOrderStatus makes before its timeout
MaxPolls == 2
(***************************************************************************)
(* Program constants                                                       *)
(***************************************************************************)
\* a countdown one tick shorter
InitializationWaitTicksNine == 10 - 1

InitializationWaitTicks == 10
VolatilityWindow == 50
AtrPeriod == 14
\* the rolling window of startTrading (1000 in the source, which exceeds every
\* MA length + 2); the model keeps the smallest window with that property
PriceHistoryCap == MaLength + 2
\* optimizeMAParameters rejects fewer than 50 bars (>= 30 + 2); the model's
\* series are the shortest ones that still feed calculateSignals
HistLen == MaLength + 2

Timeframes == {"1m", "5m", "15m"}

\* symbols in which the account may hold a position when the bot starts
BrokerSymbols == {"BTC/USD"}

\* prices the market data port can return, in cents
Prices == {9700, 10000, 10300}

(***************************************************************************)
(* Generic helpers                                                         *)
(***************************************************************************)
Max(a, b) == IF a >= b THEN a ELSE b
Min(a, b) == IF a <= b THEN a ELSE b
Abs(a) == IF a >= 0 THEN a ELSE 0 - a

\* JavaScript division of doubles, truncated towards zero at the unit
Div(a, b) == IF a >= 0 THEN a \div b ELSE 0 - ((0 - a) \div b)

\* Array.prototype.slice(-n)
SliceLast(s, n) == IF Len(s) <= n THEN s ELSE SubSeq(s, Len(s) - n + 1, Len(s))

RECURSIVE SumSeq(_)
SumSeq(s) == IF s = <<>> THEN 0 ELSE Head(s) + SumSeq(Tail(s))

RECURSIVE ISqrtIn(_, _, _)
ISqrtIn(n, lo, hi) ==
    IF lo >= hi THEN lo
    ELSE LET mid == (lo + hi + 1) \div 2
         IN  IF mid * mid <= n THEN ISqrtIn(n, mid, hi) ELSE ISqrtIn(n, lo, mid - 1)
\* Math.sqrt, rounded down to the unit
ISqrt(n) == ISqrtIn(n, 0, Min(n, 46340))

Clamp(lo, hi, x) == Max(lo, Min(hi, x))

(***************************************************************************)
(* MLRiskManager (src/src/ml-risk-manager.js)                              *)
(***************************************************************************)
volatilityWindow == 50
atrMultiplier == 1500
riskRewardRatio == 2000
maxStopLossPercent == 500
maxTakeProfitPercent == 500
minStopLossPercent == 200
minTakeProfitPercent == 300
maxPositionPercent == 10
minPositionSize == 1

\* feeTiers: 30-day volume threshold (dollars) and taker rate (1e-4)
feeTiers == << [volume |-> 0,         taker |-> 25],
               [volume |-> 100000,    taker |-> 22],
               [volume |-> 500000,    taker |-> 20],
               [volume |-> 1000000,   taker |-> 18],
               [volume |-> 10000000,  taker |-> 15],
               [volume |-> 25000000,  taker |-> 13],
               [volume |-> 50000000,  taker |-> 12],
               [volume |-> 100000000, taker |-> 10] >>

\* getFeeRate(volume30Day, false): the highest tier whose threshold is reached
getFeeRate(volume30Day) ==
    LET reached == {i \in 1..Len(feeTiers) : volume30Day >= feeTiers[i].volume}
    IN  IF reached = {} THEN feeTiers[1].taker
        ELSE feeTiers[CHOOSE i \in reached : \A j \in reached : j <= i].taker

\* calculateTradeFees(...).totalFees / positionSize, in milli-cents per coin:
\* buy fee valued at the entry price plus sell fee on the exit value
FeePerUnit(entryPrice, exitPrice, volume30Day) ==
    Div(entryPrice * getFeeRate(volume30Day), 10000)
  + Div(exitPrice * getFeeRate(volume30Day), 10000)

\* true range of bar i (i >= 2), in cents
TrueRange(priceData, i) ==
    LET high == IF priceData[i].high # 0 THEN priceData[i].high ELSE priceData[i].close
        low == IF priceData[i].low # 0 THEN priceData[i].low ELSE priceData[i].close
        prevClose == priceData[i - 1].close
    IN  Max(high - low, Max(Abs(high - prevClose), Abs(low - prevClose)))

\* calculateATR(priceData, period): -1 stands for null; otherwise milli-cents
calculateATR(priceData, period) ==
    IF Len(priceData) < period + 1 THEN -1
    ELSE LET trueRanges == [k \in 1..(Len(priceData) - 1) |-> TrueRange(priceData, k + 1)]
             recentTR == SliceLast(trueRanges, period)
         IN  Div(SumSeq(recentTR) * 1000, period)

\* simple returns of consecutive closes, in 1e-5
Returns(priceData) ==
    [k \in 1..(Len(priceData) - 1) |->
        Div((priceData[k + 1].close - priceData[k].close) * 100000, priceData[k].close)]

\* calculateVolatility(priceData): population standard deviation of the returns
calculateVolatility(priceData) ==
    LET returns == Returns(priceData)
        n == Len(returns)
        mean == Div(SumSeq(returns), n)
        variance == Div(SumSeq([k \in 1..n |-> (returns[k] - mean) * (returns[k] - mean)]), n)
    IN  ISqrt(variance)

\* calculateTrend(priceData): regression slope over the mean price, in 1e-3,
\* clamped to [-1, 1]
calculateTrend(priceData) ==
    LET n == Len(priceData)
        sumX == SumSeq([k \in 1..n |-> k - 1])
        sumY == SumSeq([k \in 1..n |-> priceData[k].close])
        sumXY == SumSeq([k \in 1..n |-> (k - 1) * priceData[k].close])
        sumX2 == SumSeq([k \in 1..n |-> (k - 1) * (k - 1)])
        slope == Div((n * sumXY - sumX * sumY) * 1000, n * sumX2 - sumX * sumX)
    IN  Clamp(-1000, 1000, Div(slope * 100 * n, sumY))

\* Number.prototype.toFixed(2) of a percentage
ToFixed2(pct) == Div(pct + 5, 10) * 10

\* calculateOptimalTPSL(priceData, currentPrice, maType, maLength, positionSize,
\* volume30Day, timeframe) for a positionSize > 0 (it cancels in the fee per
\* unit).  The fallback result carries no percentages: -1 stands for undefined.
\* tpNetProfit is fees.tpScenario.netProfit per coin of positionSize, in milli-cents.
calculateOptimalTPSL(priceData, currentPrice, volume30Day, timeframe) ==
    LET atr == calculateATR(priceData, AtrPeriod)
    IN  IF atr = -1 \/ atr = 0
        THEN [stopLoss |-> currentPrice * 985, takeProfit |-> currentPrice * 1030,
              stopLossPercent |-> -1, takeProfitPercent |-> -1, method |-> "fallback",
              confidence |-> 500]
        ELSE
        LET recentData == SliceLast(priceData, volatilityWindow)
            volatility == calculateVolatility(recentData)
            trend == calculateTrend(recentData)
            volatilityFactor == Clamp(500, 2000, Div(volatility * 1000, 2000))
            stopLossDistance0 == Div(Div(atr * atrMultiplier, 1000) * volatilityFactor, 1000)
            stopLossPercent0 ==
                Clamp(minStopLossPercent, maxStopLossPercent,
                      Div(stopLossDistance0 * 100, currentPrice))
            stopLossDistance == Div(currentPrice * stopLossPercent0, 100)
            trendFactor == Abs(trend)
            dynamicRR == Div(riskRewardRatio * (1000 + Div(trendFactor * 500, 1000)), 1000)
            takeProfitDistance0 == Div(stopLossDistance * dynamicRR, 1000)
            takeProfitPercent0 ==
                Clamp(minTakeProfitPercent, maxTakeProfitPercent,
                      Div(takeProfitDistance0 * 100, currentPrice))
            takeProfitPercent1 ==
                CASE timeframe = "1m" ->
                        Min(Div(maxTakeProfitPercent * 1300, 1000), Div(takeProfitPercent0 * 1300, 1000))
                  [] timeframe = "5m" ->
                        Min(Div(maxTakeProfitPercent * 1100, 1000), Div(takeProfitPercent0 * 1100, 1000))
                  [] OTHER -> takeProfitPercent0
            stopLossPercent ==
                IF timeframe = "1m"
                THEN Min(Div(maxStopLossPercent * 1200, 1000), Div(stopLossPercent0 * 1200, 1000))
                ELSE stopLossPercent0
            takeProfit1 == Div(currentPrice * (100000 + takeProfitPercent1), 100)
            stopLoss == Div(currentPrice * (100000 - stopLossPercent), 100)
            feeAdjustment == FeePerUnit(currentPrice * 1000, takeProfit1, volume30Day)
            takeProfit2 == takeProfit1 + feeAdjustment
            takeProfitPercent2 == Div((takeProfit2 - currentPrice * 1000) * 100, currentPrice)
            capped == takeProfitPercent2 > maxTakeProfitPercent
            takeProfitPercent == IF capped THEN maxTakeProfitPercent ELSE takeProfitPercent2
            takeProfit == IF capped
                          THEN Div(currentPrice * (100000 + takeProfitPercent), 100)
                          ELSE takeProfit2
        IN  [stopLoss |-> stopLoss, takeProfit |-> takeProfit,
             stopLossPercent |-> ToFixed2(stopLossPercent),
             takeProfitPercent |-> ToFixed2(takeProfitPercent),
             tpNetProfit |-> takeProfit - currentPrice * 1000 - feeAdjustment,
             method |-> "ml-atr-fees"]

\* calculatePositionSize(accountInfo, riskPercent, entryPrice, stopLoss,
\* volatility, volume30Day, timeframe): the object it returns.  accountInfo,
\* riskAmount, actualRisk and fees in cents, riskPercent in 1e-3 percent,
\* stopLoss and stopDistance in milli-cents, sizes in 1e-3 coin
PositionSizing(accountInfo, riskPercent, entryPrice, stopLoss, volatility, volume30Day, timeframe) ==
    LET availableCapital == accountInfo.buyingPower
        riskAmount0 == Div(accountInfo.equity * riskPercent, 100000)
        volatilityAdjustment ==
            IF volatility = 0 THEN 1500
            ELSE Clamp(500, 1500, Div(2000000, volatility))
        timeframeMultiplier ==
            CASE timeframe = "1m" -> 1500
              [] timeframe = "5m" -> 1000
              [] timeframe = "15m" -> 700
              [] OTHER -> 1000
        riskAmount == Div(Div(riskAmount0 * volatilityAdjustment, 1000) * timeframeMultiplier, 1000)
        stopDistance == Abs(entryPrice * 1000 - stopLoss)
        positionSize0 == Div(riskAmount * 10000, Div(stopDistance, 100))
        feePerUnit == FeePerUnit(entryPrice * 1000, stopLoss, volume30Day)
        totalFees == Div(positionSize0 * Div(feePerUnit, 100), 10000)
        adjustedRiskAmount == riskAmount - totalFees
        positionSize1 == IF adjustedRiskAmount > 0
                         THEN Div(adjustedRiskAmount * 10000, Div(stopDistance, 100))
                         ELSE positionSize0
        maxSize == Min(Div(availableCapital * maxPositionPercent * 10, entryPrice),
                       Div(accountInfo.equity * 150, entryPrice))
        positionSize == Max(minPositionSize, Min(maxSize, positionSize1))
        finalFees == Div(positionSize * Div(feePerUnit, 100), 10000)
    IN  [size |-> positionSize, riskAmount |-> riskAmount,
         actualRisk |-> Div(positionSize * Div(stopDistance, 100), 10000) + finalFees,
         maxAllowed |-> maxSize, stopDistance |-> stopDistance, fees |-> finalFees]

\* calculatePositionSize(...).size
calculatePositionSize(accountInfo, riskPercent, entryPrice, stopLoss, volatility, volume30Day, timeframe) ==
    PositionSizing(accountInfo, riskPercent, entryPrice, stopLoss, volatility, volume30Day, timeframe).size

(***************************************************************************)
(* StrategyOptimizer (src/src/strategy.js), SMA configuration              *)
(***************************************************************************)
\* calculateMA(prices, 'SMA', length): one value per full window, each kept as
\* the window's sum (the average times length) so that comparisons are exact;
\* <<>> stands for the null returned when length > prices.length
calculateMA(prices, length) ==
    IF Len(prices) = 0 \/ length < 1 \/ length > Len(prices) THEN <<>>
    ELSE [k \in 1..(Len(prices) - length + 1) |-> SumSeq(SubSeq(prices, k, k + length - 1))]

\* detectCrossover with a strict comparison of the previous price
detectCrossoverStrict(prevPrice, currentPrice, prevMA, currentMA) ==
    LET bullishCrossover == prevPrice < prevMA /\ currentPrice > currentMA
        bearishCrossover == prevPrice > prevMA /\ currentPrice < currentMA
    IN  IF bullishCrossover THEN "BUY"
        ELSE IF bearishCrossover THEN "SELL"
        ELSE "NONE"

\* detectCrossover with the two directions exchanged
detectCrossoverSwapped(prevPrice, currentPrice, prevMA, currentMA) ==
    LET bullishCrossover == prevPrice <= prevMA /\ currentPrice > currentMA
        bearishCrossover == prevPrice >= prevMA /\ currentPrice < currentMA
    IN  IF bullishCrossover THEN "SELL"
        ELSE IF bearishCrossover THEN "BUY"
        ELSE "NONE"

\* detectCrossover(prevPrice, currentPrice, prevMA, currentMA): prices are
\* scaled by length like the MA values
detectCrossover(prevPrice, currentPrice, prevMA, currentMA) ==
    LET bullishCrossover == prevPrice <= prevMA /\ currentPrice > currentMA
        bearishCrossover == prevPrice >= prevMA /\ currentPrice < currentMA
    IN  IF bullishCrossover THEN "BUY"
        ELSE IF bearishCrossover THEN "SELL"
        ELSE "NONE"

\* calculateSignals(prices, maType, maLength).action
calculateSignals(prices, maLength) ==
    IF Len(prices) < maLength + 2 THEN "HOLD"
    ELSE LET maValues == calculateMA(prices, maLength)
         IN  IF Len(maValues) < 2 THEN "HOLD"
             ELSE LET currentPrice == prices[Len(prices)]
                      prevPrice == prices[Len(prices) - 1]
                      currentMA == maValues[Len(maValues)]
                      prevMA == maValues[Len(maValues) - 1]
                      crossover == detectCrossover(prevPrice * maLength, currentPrice * maLength,
                                                   prevMA, currentMA)
                  IN  IF crossover = "NONE" THEN "HOLD" ELSE crossover

(***************************************************************************)
(* OrderManager (src/src/orders.js)                                        *)
(***************************************************************************)
OrderStatuses == {"new", "filled", "canceled", "rejected"}

\* what alpacaClient.getOrder answers on the successive polls of one order
PollSeqs == [1..MaxPolls -> OrderStatuses]

\* what the broker does with one executeBuyOrder / executeSellOrder call:
\* pre = "error" when a step before or at createOrder throws
OrderScenarios ==
    {[pre |-> "error", polls |-> <<>>]} \cup {[pre |-> "ok", polls |-> s] : s \in PollSeqs}

\* monitorOrderStatus(orderId): the first terminal status polled, or "null"
\* once the polls of the monitoring window are used up
RECURSIVE monitorOrderStatus(_)
monitorOrderStatus(polls) ==
    IF polls = <<>> THEN "null"
    ELSE IF Head(polls) = "filled" THEN "filled"
    ELSE IF Head(polls) \in {"canceled", "rejected"} THEN Head(polls)
    ELSE monitorOrderStatus(Tail(polls))

\* executeBuyOrder that takes any order monitorOrderStatus returns for a fill
executeBuyOrderAnyOrder(quantity, scenario) ==
    IF quantity <= 0 \/ scenario.pre = "error"
    THEN [success |-> FALSE, submitted |-> FALSE, order |-> "error"]
    ELSE LET filledOrder == monitorOrderStatus(scenario.polls)
         IN  [success |-> filledOrder # "null", submitted |-> TRUE, order |-> filledOrder]

\* executeBuyOrder(symbol, quantity, 1.0, null): submitted tells whether
\* createOrder was reached, order is what monitorOrderStatus returned
executeBuyOrder(quantity, scenario) ==
    IF quantity <= 0 \/ scenario.pre = "error"
    THEN [success |-> FALSE, submitted |-> FALSE, order |-> "error"]
    ELSE LET filledOrder == monitorOrderStatus(scenario.polls)
         IN  [success |-> filledOrder = "filled", submitted |-> TRUE, order |-> filledOrder]

\* executeSellOrder(symbol, quantity)
executeSellOrder(quantity, scenario) ==
    IF quantity <= 0 \/ scenario.pre = "error"
    THEN [success |-> FALSE, submitted |-> FALSE, order |-> "error"]
    ELSE LET filledOrder == monitorOrderStatus(scenario.polls)
         IN  [success |-> filledOrder = "filled", submitted |-> TRUE, order |-> filledOrder]

(***************************************************************************)
(* BitFlowBot (src/unnamed/part_005)                                       *)
(***************************************************************************)
VARIABLES
    pc,                      \* where start() is: "start", "optimize", "ready", "trading", "exited"
    exitCode,                \* argument of process.exit, -1 while the process runs
    brokerPositions,         \* positions open at the broker that the bot did not open
    currentTimeframe,        \* this.currentTimeframe
    useMLRisk,               \* this.useMLRisk
    positionSizing,          \* this.positionSizing
    historicalData,          \* this.historicalData
    isRunning,               \* this.isRunning
    position,                \* startTrading's position
    heldCount,               \* Position records created and not yet cleared
    priceHistory,            \* startTrading's priceHistory
    previousPriceVsMA,       \* startTrading's previousPriceVsMA
    initializationWaitTicks, \* startTrading's initializationWaitTicks
    initializationComplete,  \* startTrading's initializationComplete
    last,                    \* what the latest step of the bot did
    tpsl,                    \* a call of calculateOptimalTPSL: its arguments and result
    call                     \* a call of another function on its own: name, arguments, result

vars == <<pc, exitCode, brokerPositions, currentTimeframe, useMLRisk, positionSizing,
          historicalData, isRunning, position, heldCount, priceHistory,
          previousPriceVsMA, initializationWaitTicks, initializationComplete, last,
          tpsl, call>>

configVars == <<currentTimeframe, useMLRisk, positionSizing>>
loopVars == <<position, heldCount, priceHistory, previousPriceVsMA,
              initializationWaitTicks, initializationComplete>>

\* position = null
NoPosition == [entryPrice |-> 0, quantity |-> 0, stopLoss |-> 0, takeProfit |-> 0]

\* this.accountInfo: the default account of initialize(), in cents
accountInfo == [equity |-> 1000000, cash |-> 1000000, buyingPower |-> 2000000]

\* this.stopLossPercent and this.riskRewardRatio: initialize()'s defaults
botStopLossPercent == 1500
botRiskRewardRatio == 2000

\* the fields of the bot object and the locals of startTrading() as they are
\* before initialize(); also what is left of them once the process has exited
MemoryCleared ==
    /\ currentTimeframe' = "null"
    /\ useMLRisk' = FALSE
    /\ positionSizing' = "null"
    /\ historicalData' = <<>>
    /\ isRunning' = FALSE
    /\ position' = [entryPrice |-> 0, quantity |-> 0, stopLoss |-> 0, takeProfit |-> 0]
    /\ heldCount' = 0
    /\ priceHistory' = <<>>
    /\ previousPriceVsMA' = "null"
    /\ initializationWaitTicks' = 0
    /\ initializationComplete' = FALSE

NoLog ==
    [kind |-> "none", price |-> 0, prevBefore |-> "null", relation |-> "null",
     heldBefore |-> FALSE, completeBefore |-> FALSE, waitBefore |-> 0,
     positionBefore |-> [entryPrice |-> 0, quantity |-> 0, stopLoss |-> 0, takeProfit |-> 0],
     signal |-> "HOLD", highVol |-> FALSE, buy |-> "none", buyOk |-> FALSE,
     buy1 |-> "none", buy2 |-> "none", sell |-> "none",
     sellQty |-> 0, closeAttempts |-> {}, sleep |-> 0, tick |-> 0]

\* ticks are numbered up to the second one after the countdown, later ones
\* carry that number
TickCap == InitializationWaitTicks + 3

\* no call of another function under observation
Idle == [fn |-> "none"]

\* no call of calculateOptimalTPSL under observation
NoCall == [priceData |-> <<>>, currentPrice |-> 0, volume30Day |-> 0, timeframe |-> "null",
           result |-> [method |-> "none"]]

Bar(c) == [high |-> c + 20, low |-> c - 20, close |-> c]
SeriesOf(pattern, n) == [i \in 1..n |-> Bar(pattern[((i - 1) % Len(pattern)) + 1])]

\* the bar series getHistoricalData may deliver: flat, and three swings of
\* growing volatility
HistoricalSeries ==
    { SeriesOf(<<10000>>, HistLen),
      SeriesOf(<<10000, 10300>>, HistLen),
      SeriesOf(<<9700, 10000, 9700, 10300>>, HistLen),
      SeriesOf(<<9700, 10300>>, HistLen) }

Init ==
    /\ pc = "start"
    /\ exitCode = -1
    /\ brokerPositions \in SUBSET BrokerSymbols
    /\ currentTimeframe = "null"
    /\ useMLRisk = FALSE
    /\ positionSizing = "null"
    /\ historicalData = <<>>
    /\ isRunning = FALSE
    /\ position = NoPosition
    /\ heldCount = 0
    /\ priceHistory = <<>>
    /\ previousPriceVsMA = "null"
    /\ initializationWaitTicks = 0
    /\ initializationComplete = FALSE
    /\ last = NoLog
    /\ tpsl = NoCall
    /\ call = Idle

\* closeAllPositions(): sells every position getPositions() reports; a sell
\* that fails is logged and skipped.  reported = {} also stands for the []
\* getPositions() returns when the broker call throws.
closeAllPositions(reported, scenarios) ==
    {b \in reported : executeSellOrder(1, scenarios[b]).success}

\* initialize(): reads the configuration and closes the existing positions
Initialize ==
    /\ pc = "start"
    /\ \E tf \in Timeframes, ml \in BOOLEAN, sizing \in {"ml", "manual"} :
          /\ currentTimeframe' = tf
          /\ useMLRisk' = ml
          /\ positionSizing' = sizing
    /\ \E reported \in {brokerPositions, {}} :
       \E closed \in {closeAllPositions(reported, scenarios) : scenarios \in [reported -> OrderScenarios]} :
          /\ brokerPositions' = brokerPositions \ closed
          /\ last' = [NoLog EXCEPT !.kind = "startup", !.closeAttempts = reported]
    /\ pc' = "optimize"
    /\ UNCHANGED <<exitCode, historicalData, isRunning, loopVars, tpsl, call>>

\* initialize() returns false (environment validation or a manager's
\* constructor threw): start() exits with code 1
InitializeFails ==
    /\ pc = "start"
    /\ pc' = "exited"
    /\ exitCode' = 1
    /\ last' = [NoLog EXCEPT !.kind = "initfailed"]
    /\ MemoryCleared
    /\ UNCHANGED <<brokerPositions, tpsl, call>>

\* optimizeStrategy(): keeps the fetched bars in this.historicalData
OptimizeStrategy ==
    /\ pc = "optimize"
    /\ \E series \in HistoricalSeries : historicalData' = series
    /\ pc' = "ready"
    /\ UNCHANGED <<exitCode, brokerPositions, configVars, isRunning, loopVars, last, tpsl, call>>

\* startTrading() with no initialization countdown
StartTradingNoWait ==
    /\ pc = "ready"
    /\ isRunning' = TRUE
    /\ position' = NoPosition
    /\ heldCount' = 0
    /\ priceHistory' = [i \in 1..Len(historicalData) |-> historicalData[i].close]
    /\ previousPriceVsMA' = "null"
    /\ initializationWaitTicks' = 0
    /\ initializationComplete' = FALSE
    /\ pc' = "trading"
    /\ UNCHANGED <<exitCode, brokerPositions, configVars, historicalData, last, tpsl, call>>

\* startTrading() up to the loop
StartTrading ==
    /\ pc = "ready"
    /\ isRunning' = TRUE
    /\ position' = NoPosition
    /\ heldCount' = 0
    /\ priceHistory' = [i \in 1..Len(historicalData) |-> historicalData[i].close]
    /\ previousPriceVsMA' = "null"
    /\ initializationWaitTicks' = InitializationWaitTicks
    /\ initializationComplete' = FALSE
    /\ pc' = "trading"
    /\ UNCHANGED <<exitCode, brokerPositions, configVars, historicalData, last, tpsl, call>>

\* calculateCurrentMA(priceHistory), times the MA length
calculateCurrentMA(prices) ==
    LET maValues == calculateMA(prices, MaLength)
    IN  IF Len(maValues) > 0 THEN maValues[Len(maValues)]
        ELSE prices[Len(prices)] * MaLength

\* BitFlowBot.calculateVolatility(priceData)
botCalculateVolatility(priceData) == calculateVolatility(priceData)

maxVolatilityThreshold(timeframe) ==
    IF timeframe = "1m" THEN 5000 ELSE IF timeframe = "5m" THEN 3000 ELSE 2000

\* the volatility filter applied to the 1m timeframe only
VolatilityFilterTripsOneMinute(timeframe, volatility) ==
    /\ volatility > maxVolatilityThreshold(timeframe)
    /\ timeframe = "1m"

\* the volatility filter of the loop: the branch that skips trading
VolatilityFilterTrips(timeframe, volatility) ==
    /\ volatility > maxVolatilityThreshold(timeframe)
    /\ timeframe \in {"1m", "5m"}

\* stopLoss, takeProfit and positionSize of the buy branch
BuyParameters(currentPrice) ==
    IF useMLRisk /\ positionSizing = "ml"
    THEN LET mlResult == calculateOptimalTPSL(historicalData, currentPrice, 0, currentTimeframe)
         IN  [stopLoss |-> mlResult.stopLoss, takeProfit |-> mlResult.takeProfit,
              positionSize |-> calculatePositionSize(accountInfo, 1000, currentPrice,
                                   mlResult.stopLoss,
                                   botCalculateVolatility(SliceLast(historicalData, VolatilityWindow)),
                                   0, currentTimeframe)]
    ELSE [stopLoss |-> Div(currentPrice * (100000 - botStopLossPercent), 100),
          takeProfit |-> Div(currentPrice * (100000 + Div(botStopLossPercent * botRiskRewardRatio, 1000)), 100),
          positionSize |-> 1]

\* the buy branch of the loop
BuyBranch(entry, currentPrice) ==
    \E params \in {BuyParameters(currentPrice)} :
    \E result \in {executeBuyOrder(params.positionSize, scenario) : scenario \in OrderScenarios} :
            /\ position' = IF result.success
                           THEN [entryPrice |-> currentPrice, quantity |-> params.positionSize,
                                 stopLoss |-> params.stopLoss, takeProfit |-> params.takeProfit]
                           ELSE position
            /\ heldCount' = IF result.success THEN heldCount + 1 ELSE heldCount
            /\ last' = [entry EXCEPT !.buy = result.order, !.buyOk = result.success]

\* ExitBranch that clears the position whatever the sell returned
ExitBranchAlwaysClears(entry, currentPrice) ==
    LET hitTP == currentPrice * 1000 >= position.takeProfit
        hitSL == currentPrice * 1000 <= position.stopLoss
    IN  IF hitTP \/ hitSL
        THEN \E result \in {executeSellOrder(position.quantity, scenario) : scenario \in OrderScenarios} :
                    /\ position' = NoPosition
                    /\ heldCount' = heldCount - 1
                    /\ last' = [entry EXCEPT !.sell = result.order,
                                             !.sellQty = position.quantity]
        ELSE /\ UNCHANGED <<position, heldCount>>
             /\ last' = entry

\* the exit branch of the loop
ExitBranch(entry, currentPrice) ==
    LET hitTP == currentPrice * 1000 >= position.takeProfit
        hitSL == currentPrice * 1000 <= position.stopLoss
    IN  IF hitTP \/ hitSL
        THEN \E result \in {executeSellOrder(position.quantity, scenario) : scenario \in OrderScenarios} :
                    /\ position' = IF result.success THEN NoPosition ELSE position
                    /\ heldCount' = IF result.success THEN heldCount - 1 ELSE heldCount
                    /\ last' = [entry EXCEPT !.sell = result.order,
                                             !.sellQty = position.quantity]
        ELSE /\ UNCHANGED <<position, heldCount>>
             /\ last' = entry

\* priceHistory.push(currentPrice), then shift() once beyond the cap
PushPrice(history, currentPrice) ==
    IF Len(history) + 1 > PriceHistoryCap
    THEN Tail(Append(history, currentPrice))
    ELSE Append(history, currentPrice)

\* the relation with a price equal to the MA recorded as 'below'
PriceVsMANeverAt(currentPrice, currentMA) ==
    IF currentPrice * MaLength > currentMA THEN "above" ELSE "below"

\* isAbove ? 'above' : isBelow ? 'below' : 'at', of the price and the current MA
PriceVsMA(currentPrice, currentMA) ==
    IF currentPrice * MaLength > currentMA THEN "above"
    ELSE IF currentPrice * MaLength < currentMA THEN "below"
    ELSE "at"

\* what the loop knows when it reaches the initialization checks
TickEntry(currentPrice, relation, signal) ==
    [NoLog EXCEPT !.price = currentPrice,
                  !.prevBefore = previousPriceVsMA,
                  !.relation = relation,
                  !.heldBefore = (position # NoPosition),
                  !.positionBefore = position,
                  !.buy1 = last.buy,
                  !.buy2 = last.buy1,
                  !.completeBefore = initializationComplete,
                  !.waitBefore = initializationWaitTicks,
                  !.signal = signal,
                  !.sleep = IF position # NoPosition THEN 1000 ELSE 30000,
                  !.tick = Min(last.tick + 1, TickCap)]

\* TradeStep without the !position condition of the buy branch
TradeStepAnyPosition(entry, currentPrice, relation, signal, previous, volatility) ==
    IF VolatilityFilterTrips(currentTimeframe, volatility)
    THEN /\ UNCHANGED <<position, heldCount>>
         /\ last' = entry
    ELSE IF signal = "BUY" /\ previous = "below" /\ relation = "above"
    THEN BuyBranch(entry, currentPrice)
    ELSE IF position # NoPosition
    THEN ExitBranch(entry, currentPrice)
    ELSE /\ UNCHANGED <<position, heldCount>>
         /\ last' = entry

\* TradeStep that buys on the strategy signal alone, without crossedAbove
TradeStepSignalOnly(entry, currentPrice, relation, signal, previous, volatility) ==
    IF VolatilityFilterTrips(currentTimeframe, volatility)
    THEN /\ UNCHANGED <<position, heldCount>>
         /\ last' = entry
    ELSE IF signal = "BUY" /\ position = NoPosition
    THEN BuyBranch(entry, currentPrice)
    ELSE IF position # NoPosition
    THEN ExitBranch(entry, currentPrice)
    ELSE /\ UNCHANGED <<position, heldCount>>
         /\ last' = entry

\* TradeStep with the buy branch tested before the volatility filter
TradeStepBuyBeforeFilter(entry, currentPrice, relation, signal, previous, volatility) ==
    IF signal = "BUY" /\ position = NoPosition /\ previous = "below" /\ relation = "above"
    THEN BuyBranch(entry, currentPrice)
    ELSE IF VolatilityFilterTrips(currentTimeframe, volatility)
    THEN /\ UNCHANGED <<position, heldCount>>
         /\ last' = entry
    ELSE IF position # NoPosition
    THEN ExitBranch(entry, currentPrice)
    ELSE /\ UNCHANGED <<position, heldCount>>
         /\ last' = entry

\* the loop body after the initialization checks; previous is the recorded
\* relation the crossover test reads
TradeStep(entry, currentPrice, relation, signal, previous, volatility) ==
    IF VolatilityFilterTrips(currentTimeframe, volatility)
    THEN /\ UNCHANGED <<position, heldCount>>
         /\ last' = entry
    ELSE IF signal = "BUY" /\ position = NoPosition /\ previous = "below" /\ relation = "above"
    THEN BuyBranch(entry, currentPrice)
    ELSE IF position # NoPosition
    THEN ExitBranch(entry, currentPrice)
    ELSE /\ UNCHANGED <<position, heldCount>>
         /\ last' = entry

\* one iteration of the loop of startTrading() that obtains a price, but for
\* what it does to the optimizer's result
TickBody ==
    /\ pc = "trading"
    /\ isRunning
    /\ \E currentPrice \in Prices :
       \E history \in {PushPrice(priceHistory, currentPrice)} :
       \E signal \in {calculateSignals(history, MaLength)} :
       \E relation \in {PriceVsMA(currentPrice, calculateCurrentMA(history))} :
       \E entry \in {TickEntry(currentPrice, relation, signal)} :
          /\ priceHistory' = history
          /\ previousPriceVsMA' = relation
          /\ IF previousPriceVsMA = "null"
             THEN \* first tick: establish the baseline
                  /\ last' = [entry EXCEPT !.kind = "baseline"]
                  /\ UNCHANGED <<position, heldCount, initializationWaitTicks,
                                 initializationComplete>>
             ELSE IF initializationWaitTicks > 1
             THEN \* still counting down
                  /\ initializationWaitTicks' = initializationWaitTicks - 1
                  /\ last' = [entry EXCEPT !.kind = "wait"]
                  /\ UNCHANGED <<position, heldCount, initializationComplete>>
             ELSE \E volatility \in {botCalculateVolatility(SliceLast(historicalData, VolatilityWindow))} :
                  IF initializationWaitTicks > 0
                  THEN \* the countdown ends: the recorded relation is overwritten
                       \* with the current one before the crossover test
                       /\ initializationWaitTicks' = initializationWaitTicks - 1
                       /\ initializationComplete' = TRUE
                       /\ TradeStep([entry EXCEPT !.kind = "ready",
                                        !.highVol = volatility > maxVolatilityThreshold(currentTimeframe)],
                                    currentPrice, relation, signal, relation, volatility)
                  ELSE /\ UNCHANGED <<initializationWaitTicks, initializationComplete>>
                       /\ TradeStep([entry EXCEPT !.kind = "trade",
                                        !.highVol = volatility > maxVolatilityThreshold(currentTimeframe)],
                                    currentPrice, relation, signal, previousPriceVsMA, volatility)
    /\ UNCHANGED <<pc, exitCode, brokerPositions, configVars, historicalData, isRunning, tpsl>>

\* one iteration of the loop of startTrading() that obtains a price
Tick == TickBody /\ UNCHANGED call

\* an iteration whose price fetch fails after its retries: the catch block
\* exits on a 'Failed to get' / 'Request failed' message and otherwise sleeps
TickError ==
    /\ pc = "trading"
    /\ isRunning
    /\ \E critical \in BOOLEAN :
          IF critical
          THEN /\ pc' = "exited"
               /\ exitCode' = 1
               /\ last' = [NoLog EXCEPT !.kind = "fatal", !.heldBefore = (position # NoPosition)]
               /\ MemoryCleared
          ELSE /\ last' = [NoLog EXCEPT !.kind = "error", !.heldBefore = (position # NoPosition),
                                        !.sleep = 5000, !.tick = last.tick]
               /\ UNCHANGED <<pc, exitCode, configVars, historicalData, isRunning, loopVars>>
    /\ UNCHANGED <<brokerPositions, tpsl, call>>

\* SIGINT: shutdown() clears isRunning and exits with code 0
Shutdown ==
    /\ pc # "exited"
    /\ pc' = "exited"
    /\ exitCode' = 0
    /\ last' = [NoLog EXCEPT !.kind = "shutdown", !.heldBefore = (position # NoPosition)]
    /\ MemoryCleared
    /\ UNCHANGED <<brokerPositions, tpsl, call>>

Next ==
    \/ Initialize
    \/ InitializeFails
    \/ OptimizeStrategy
    \/ StartTrading
    \/ Tick
    \/ TickError
    \/ Shutdown

Spec == Init /\ [][Next]_vars

TypeOK ==
    /\ pc \in {"start", "optimize", "ready", "trading", "exited"}
    /\ previousPriceVsMA \in {"null", "above", "below", "at"}
    /\ initializationWaitTicks \in 0..InitializationWaitTicks
    /\ Len(priceHistory) <= PriceHistoryCap

(***************************************************************************)
(* Properties of the live trading loop                                     *)
(***************************************************************************)
TickKinds == {"baseline", "wait", "ready", "trade"}
UnfilledResults == {"null", "canceled", "rejected"}

\* the exit condition of the loop for the price and the Position of the last tick
ExitHit == \/ last.price * 1000 >= last.positionBefore.takeProfit
           \/ last.price * 1000 <= last.positionBefore.stopLoss

\* the volatility filter skipped the trading logic of the last tick
FilterTripped == last.highVol /\ currentTimeframe \in {"1m", "5m"}

\* C1: the loop holds at most one open Position in every reachable state, and
\* executeBuyOrder is called only on a tick that started with no Position.
C1_SinglePosition ==
    /\ heldCount <= 1
    /\ (heldCount = 1) = (position # NoPosition)
    /\ (last.buy # "none" => ~last.heldBefore)

\* a buy filled on a tick that started without a Position, which is now held
C1_Witness ==
    /\ last.buy = "filled" /\ ~last.heldBefore
    /\ heldCount = 1 /\ position.entryPrice = last.price

\* C2: on a tick whose recorded previous relation is above or at, no buy order
\* is submitted, whatever the current relation and the strategy signal are.
C2_NoBuyFromAboveOrAt ==
    (last.kind \in TickKinds /\ last.prevBefore \in {"above", "at"}) => last.buy = "none"

\* a trading tick from at to above with a BUY strategy signal, no Position and
\* no volatility filter, on which nothing was bought
C2_Witness ==
    /\ last.kind = "trade" /\ last.prevBefore = "at" /\ last.relation = "above"
    /\ last.signal = "BUY" /\ ~last.heldBefore /\ ~last.highVol /\ last.buy = "none"

C4_NoOrdersDuringInit ==
    /\ (last.kind \in {"baseline", "wait", "ready"} =>
            /\ last.buy = "none" /\ last.sell = "none"
            /\ position = NoPosition)
    /\ (last.kind \in TickKinds /\ last.waitBefore > 0 =>
            last.kind \in {"baseline", "wait", "ready"})
    /\ (last.kind = "baseline" =>
            last.waitBefore = 10 /\ initializationWaitTicks = 10)
    /\ (last.kind \in {"wait", "ready"} =>
            initializationWaitTicks = last.waitBefore - 1)
    /\ (pc = "trading" /\ previousPriceVsMA = "null" => initializationWaitTicks = 10)

\* a countdown tick on which the relations and the strategy signal form a
\* below-to-above crossover, and nothing was submitted
C4_Witness ==
    /\ last.kind = "wait" /\ last.prevBefore = "below" /\ last.relation = "above"
    /\ last.signal = "BUY" /\ ~last.highVol
    /\ last.buy = "none" /\ last.sell = "none"
    /\ initializationWaitTicks = last.waitBefore - 1

\* C5: on every tick that starts with a Position and whose price is at or
\* beyond its takeProfit or stopLoss, a sell for the Position's quantity is
\* submitted; a successful sell clears the Position, a failed one leaves it as
\* it was (so the next such tick submits the sell again).
C5_ExitOnTPSL ==
    (last.kind \in TickKinds /\ last.heldBefore) =>
        /\ ExitHit =>
              /\ last.sell # "none"
              /\ last.sellQty = last.positionBefore.quantity
              /\ (last.sell = "filled" => position = NoPosition /\ heldCount = 0)
              /\ (last.sell # "filled" => position = last.positionBefore /\ heldCount = 1)
        /\ ~ExitHit => last.sell = "none" /\ position = last.positionBefore

\* a stop or target was hit, the sell was rejected and the Position is still held
C5_Witness ==
    /\ last.kind = "trade" /\ last.heldBefore /\ ExitHit
    /\ last.sell = "rejected" /\ position = last.positionBefore /\ position # NoPosition

\* C6: when the process exits through shutdown() or through the fatal branch
\* of the loop's catch while a Position is held, a sell for the Position has
\* been attempted in that step.
C6_CloseBeforeExit ==
    (last.kind \in {"shutdown", "fatal"} /\ last.heldBefore) => last.sell # "none"

\* C7: the loop never starts while a position that was open at the broker
\* before startup is still open.
C7_StartsFlat ==
    pc = "trading" => brokerPositions = {}

C9_UnfilledBuyFails ==
    /\ (last.buy \in (UnfilledResults \cup {"error"}) =>
            /\ ~last.buyOk
            /\ position = NoPosition /\ heldCount = 0)
    /\ (last.buyOk => last.buy = "filled")
    /\ (/\ last.kind \in TickKinds /\ last.buy2 \in (UnfilledResults \cup {"error"})
        /\ last.prevBefore = "below" /\ last.relation = "above" /\ ~FilterTripped)
       => last.buy # "none"

\* the second tick after a buy that timed out is a crossover again, and a buy
\* is submitted again
C9_Witness ==
    /\ last.kind = "trade" /\ last.buy2 = "null" /\ last.buy1 = "none"
    /\ last.prevBefore = "below" /\ last.relation = "above"
    /\ last.buy # "none" /\ ~last.heldBefore

(***************************************************************************)
(* calculateOptimalTPSL on its own: the arguments are drawn from bounded   *)
(* sets and the function is applied to them                                *)
(***************************************************************************)
\* bar counts of the argument series: below, at and above the 15 bars the ATR needs
TpslLens == {AtrPeriod, AtrPeriod + 1, AtrPeriod + 2}
\* half of a bar's high-low range, in cents
TpslSpreads == {0, 5, 20, 30, 100}
\* closes repeated along the series: flat, rippling, swinging
TpslPatterns == {<<10000>>, <<10000, 10030>>, <<10000, 10300>>, <<9700, 10000, 10300>>}
\* 30-day volumes of the first, second and last fee tier, in dollars
TpslVolumes == {0, 100000, 100000000}

SpreadSeries(pattern, spread, n) ==
    [i \in 1..n |-> [high |-> pattern[((i - 1) % Len(pattern)) + 1] + spread,
                     low |-> pattern[((i - 1) % Len(pattern)) + 1] - spread,
                     close |-> pattern[((i - 1) % Len(pattern)) + 1]]]

TpslArguments ==
    {[priceData |-> SpreadSeries(pattern, spread, n), currentPrice |-> price,
      volume30Day |-> volume, timeframe |-> tf, result |-> [method |-> "none"]] :
        pattern \in TpslPatterns, spread \in TpslSpreads, n \in TpslLens,
        price \in Prices, volume \in TpslVolumes, tf \in Timeframes}

InitTPSL ==
    /\ pc = "start"
    /\ exitCode = -1
    /\ brokerPositions = {}
    /\ currentTimeframe = "null"
    /\ useMLRisk = FALSE
    /\ positionSizing = "null"
    /\ historicalData = <<>>
    /\ isRunning = FALSE
    /\ position = NoPosition
    /\ heldCount = 0
    /\ priceHistory = <<>>
    /\ previousPriceVsMA = "null"
    /\ initializationWaitTicks = 0
    /\ initializationComplete = FALSE
    /\ last = NoLog
    /\ tpsl \in TpslArguments
    /\ call = Idle

\* mlRiskManager.calculateOptimalTPSL(priceData, currentPrice, type, length, 0.001,
\* volume30Day, timeframe)
CallTPSL ==
    /\ tpsl.result.method = "none"
    /\ tpsl.priceData # <<>>
    /\ tpsl' = [tpsl EXCEPT !.result = calculateOptimalTPSL(tpsl.priceData, tpsl.currentPrice,
                                                            tpsl.volume30Day, tpsl.timeframe)]
    /\ UNCHANGED <<pc, exitCode, brokerPositions, configVars, historicalData, isRunning,
                   loopVars, last, call>>

NextTPSL == CallTPSL

SpecTPSL == InitTPSL /\ [][NextTPSL]_vars

SizeAccounts ==
    {[equity |-> eq, cash |-> eq, buyingPower |-> eq * m] : eq \in {50, 10000, 1000000}, m \in {1, 2}}
\* risk per trade, in 1e-3 percent: 0.2 %, 0.5 %, 1 %, 2 %
SizeRiskPercents == {200, 500, 1000, 2000}
\* distance of the stop below the entry, in 1e-3 percent of the entry
SizeStopPercents == {200, 500, 1500, 3000}
\* volatilities, in 1e-5: none, 1 %, 2 %, 5 %
SizeVolatilities == {0, 1000, 2000, 5000}

SizeArguments ==
    {[fn |-> "calculatePositionSize", accountInfo |-> acct, riskPercent |-> rp,
      entryPrice |-> price, stopLoss |-> Div(price * (100000 - sl), 100),
      volatility |-> vol, volume30Day |-> volume, timeframe |-> tf, done |-> FALSE,
      result |-> [size |-> 0, riskAmount |-> 0, actualRisk |-> 0, maxAllowed |-> 0,
                  stopDistance |-> 0, fees |-> 0]] :
        acct \in SizeAccounts, rp \in SizeRiskPercents, price \in Prices,
        sl \in SizeStopPercents, vol \in SizeVolatilities, volume \in TpslVolumes,
        tf \in Timeframes}

\* the bot before initialize(), with no call of calculateOptimalTPSL under observation
BotIdle ==
    /\ pc = "start"
    /\ exitCode = -1
    /\ brokerPositions = {}
    /\ currentTimeframe = "null"
    /\ useMLRisk = FALSE
    /\ positionSizing = "null"
    /\ historicalData = <<>>
    /\ isRunning = FALSE
    /\ position = NoPosition
    /\ heldCount = 0
    /\ priceHistory = <<>>
    /\ previousPriceVsMA = "null"
    /\ initializationWaitTicks = 0
    /\ initializationComplete = FALSE
    /\ last = NoLog
    /\ tpsl = NoCall

InitSize == BotIdle /\ call \in SizeArguments

\* mlRiskManager.calculatePositionSize(accountInfo, riskPercent, entryPrice, stopLoss,
\* volatility, volume30Day, timeframe)
CallPositionSize ==
    /\ call.fn = "calculatePositionSize"
    /\ ~call.done
    /\ call' = [call EXCEPT !.done = TRUE,
                            !.result = PositionSizing(call.accountInfo, call.riskPercent,
                                           call.entryPrice, call.stopLoss, call.volatility,
                                           call.volume30Day, call.timeframe)]
    /\ UNCHANGED <<pc, exitCode, brokerPositions, configVars, historicalData, isRunning,
                   loopVars, last, tpsl>>

NextSize == CallPositionSize

SpecSize == InitSize /\ [][NextSize]_vars

\* C11: unless the size was raised to minPositionSize, the size returned by
\* calculatePositionSize risks, fees included, no more than riskAmount:
\* size * stopDistance + fees(size) <= riskAmount.
C11_RiskWithinBudget ==
    (call.fn = "calculatePositionSize" /\ call.done /\ call.result.size > minPositionSize)
    => call.result.actualRisk <= call.result.riskAmount

\* C12: the size returned by calculatePositionSize is at least minPositionSize
\* and its value, size * entryPrice, exceeds neither 15 % of the equity nor
\* maxPositionPercent of the buying power.
C12_SizeWithinLimits ==
    (call.fn = "calculatePositionSize" /\ call.done) =>
        /\ call.result.size >= minPositionSize
        /\ call.result.size * call.entryPrice <= call.accountInfo.equity * 150
        /\ call.result.size * call.entryPrice
              <= call.accountInfo.buyingPower * maxPositionPercent * 10

MaxWindowTicks == 3
\* lengths of this.historicalData when the loop starts
WindowLens == {PriceHistoryCap - 1, PriceHistoryCap + 1, PriceHistoryCap + 2}

InitWindow ==
    /\ pc = "trading"
    /\ exitCode = -1
    /\ brokerPositions = {}
    /\ currentTimeframe = "5m"
    /\ useMLRisk = FALSE
    /\ positionSizing = "manual"
    /\ historicalData = <<>>
    /\ isRunning = TRUE
    /\ position = NoPosition
    /\ heldCount = 0
    /\ \E n \in WindowLens :
          /\ priceHistory = [i \in 1..n |-> 10000]
          /\ call = [fn |-> "rollingWindow", initial |-> n, ticks |-> 0,
                     before |-> <<>>, price |-> 0]
    /\ previousPriceVsMA = "null"
    /\ initializationWaitTicks = InitializationWaitTicks
    /\ initializationComplete = FALSE
    /\ last = NoLog
    /\ tpsl = NoCall

\* the first statements of a loop iteration: fetch, push, shift
WindowTick ==
    /\ call.fn = "rollingWindow"
    /\ call.ticks < MaxWindowTicks
    /\ \E currentPrice \in Prices :
          /\ priceHistory' = PushPrice(priceHistory, currentPrice)
          /\ call' = [call EXCEPT !.ticks = call.ticks + 1, !.before = priceHistory,
                                  !.price = currentPrice]
    /\ UNCHANGED <<pc, exitCode, brokerPositions, configVars, historicalData, isRunning,
                   position, heldCount, previousPriceVsMA, initializationWaitTicks,
                   initializationComplete, last, tpsl>>

NextWindow == WindowTick

SpecWindow == InitWindow /\ [][NextWindow]_vars

\* C14: after every tick the price history holds at most as many prices as the
\* rolling window (1000 in the source), whatever the length of the history the
\* loop started with; the fresh price is the last one and only the oldest
\* price is evicted.
C14_WindowBounded ==
    (call.fn = "rollingWindow" /\ call.ticks >= 1) =>
        /\ Len(priceHistory) <= PriceHistoryCap
        /\ priceHistory[Len(priceHistory)] = call.price
        /\ \/ priceHistory = Append(call.before, call.price)
           \/ priceHistory = Tail(Append(call.before, call.price))

(***************************************************************************)
(* optimizeStrategy() attempt by attempt: the optimizer's answer to each   *)
(* fetch is an input, its win rate in 1e-3 and its score in 1e-3           *)
(***************************************************************************)
maxAttempts == 3
\* winRate < 0.60 is the retry threshold
WinRateTarget == 600
\* optimizedStrategy.performance.winRate of one optimizer run
WinRates == {400, 550, 600, 700}
\* optimizedStrategy.score of one optimizer run
Scores == {300, 500}
\* this.optimizedStrategy = null
NoStrategy == [winRate |-> -1, score |-> -1]

\* while (winRate < 0.60 && attempts < maxAttempts)
continueLoop(winRate, attempts) == winRate < WinRateTarget /\ attempts < maxAttempts

\* the bar window never grows
nextBarCountFlat(attempts, barCount) == barCount

\* if (attempts === 1) barCount = 1500; else if (attempts === 2) barCount = 3500;
nextBarCount(attempts, barCount) ==
    IF attempts = 1 THEN 1500 ELSE IF attempts = 2 THEN 3500 ELSE barCount

InitOptimize ==
    /\ pc = "optimize"
    /\ exitCode = -1
    /\ brokerPositions = {}
    /\ currentTimeframe \in Timeframes
    /\ useMLRisk = FALSE
    /\ positionSizing = "manual"
    /\ historicalData = <<>>
    /\ isRunning = FALSE
    /\ position = NoPosition
    /\ heldCount = 0
    /\ priceHistory = <<>>
    /\ previousPriceVsMA = "null"
    /\ initializationWaitTicks = 0
    /\ initializationComplete = FALSE
    /\ last = NoLog
    /\ tpsl = NoCall
    /\ call = [fn |-> "optimizeStrategy", at |-> "loop", barCount |-> 500, maxScore |-> 0,
               winRate |-> 0, attempts |-> 0, fetched |-> <<>>, results |-> <<>>,
               sleeps |-> <<>>, warned |-> FALSE, optimizedStrategy |-> NoStrategy]

\* one pass through the body of the while loop: fetch, optimize, then sleep
\* and widen the window, or warn, or break
OptimizeAttempt ==
    /\ call.fn = "optimizeStrategy"
    /\ call.at = "loop"
    /\ continueLoop(call.winRate, call.attempts)
    /\ \E allData \in HistoricalSeries, w \in WinRates, sc \in Scores :
       \E attempts \in {call.attempts + 1} :
          /\ historicalData' = allData
          /\ call' = [call EXCEPT
                !.attempts = attempts,
                !.fetched = Append(call.fetched, call.barCount),
                !.optimizedStrategy = [winRate |-> w, score |-> sc],
                !.results = Append(call.results, [winRate |-> w, score |-> sc]),
                !.winRate = w,
                !.maxScore = sc,
                !.sleeps = IF w < WinRateTarget /\ attempts < maxAttempts
                           THEN Append(call.sleeps, 5000) ELSE call.sleeps,
                !.barCount = IF w < WinRateTarget /\ attempts < maxAttempts
                             THEN nextBarCount(attempts, call.barCount)
                             ELSE call.barCount,
                !.warned = w < WinRateTarget /\ attempts >= maxAttempts,
                !.at = IF w < WinRateTarget /\ attempts < maxAttempts
                       THEN "loop" ELSE "break"]
    /\ UNCHANGED <<pc, exitCode, brokerPositions, configVars, isRunning, loopVars, last,
                   tpsl>>

\* getHistoricalData or optimizeMAParameters throws inside an attempt: the
\* catch block prints the message and calls process.exit(1)
OptimizeAttemptThrows ==
    /\ call.fn = "optimizeStrategy"
    /\ call.at = "loop"
    /\ continueLoop(call.winRate, call.attempts)
    /\ call' = [call EXCEPT !.attempts = call.attempts + 1,
                            !.fetched = Append(call.fetched, call.barCount),
                            !.at = "failed"]
    /\ pc' = "exited"
    /\ exitCode' = 1
    /\ UNCHANGED <<brokerPositions, configVars, historicalData, isRunning, loopVars, last,
                   tpsl>>

\* the statement after the loop: "Optimization Complete"
OptimizeComplete ==
    /\ call.fn = "optimizeStrategy"
    /\ \/ call.at = "break"
       \/ call.at = "loop" /\ ~continueLoop(call.winRate, call.attempts)
    /\ call' = [call EXCEPT !.at = "complete"]
    /\ pc' = "ready"
    /\ UNCHANGED <<exitCode, brokerPositions, configVars, historicalData, isRunning,
                   loopVars, last, tpsl>>

NextOptimize == OptimizeAttempt \/ OptimizeAttemptThrows \/ OptimizeComplete

SpecOptimize == InitOptimize /\ [][NextOptimize]_vars

\* the async function is resumed whenever the fetch, the optimizer or the
\* 5 second timer it awaits has settled
SpecOptimizeFair == SpecOptimize /\ WF_vars(NextOptimize)

BarWindows == <<500, 1500, 3500>>

\* what every state of an optimizeStrategy() run satisfies
OptimizeBounded ==
    call.fn = "optimizeStrategy" =>
        /\ call.attempts <= maxAttempts
        /\ Len(call.fetched) = call.attempts
        /\ \A k \in 1..Len(call.fetched) : call.fetched[k] = BarWindows[k]
        /\ \A k \in 1..Len(call.results) :
              k < Len(call.fetched) => call.results[k].winRate < WinRateTarget
        /\ Len(call.sleeps) = Max(0, Len(call.fetched) - 1)
              + (IF call.at = "loop" /\ call.attempts >= 1 THEN 1 ELSE 0)
        /\ \A k \in 1..Len(call.sleeps) : call.sleeps[k] = 5000
        /\ (call.at \in {"break", "complete"} /\ call.winRate < WinRateTarget) =>
              /\ call.attempts = maxAttempts
              /\ call.warned
              /\ call.optimizedStrategy # NoStrategy
              /\ exitCode = -1

OptimizeTerminated == call.fn = "optimizeStrategy" /\ call.at \in {"complete", "failed"}

C16_BestOfAttempts ==
    (call.fn = "optimizeStrategy" /\ call.at = "complete" /\ call.warned) =>
        \A k \in 1..Len(call.results) :
            /\ call.optimizedStrategy.winRate >= call.results[k].winRate
            /\ call.optimizedStrategy.score >= call.results[k].score

(***************************************************************************)
(* optimizeMAParameters(): one pass over the 7 x 26 candidates.  The bars  *)
(* are given by their number and the number of usable closes; the          *)
(* composite score of a candidate (scoreMA, calculateRSquared,             *)
(* evaluatePerformance and calculateCompositeScore read nothing but their  *)
(* arguments) is given by a table fixed for the bars, in 1e-3              *)
(***************************************************************************)
maTypes == <<"SMA", "EMA", "WMA", "DEMA", "TEMA", "HMA", "VWAP">>
lengthRange == [min |-> 5, max |-> 30]
\* historicalData.length < 50 is insufficient
MinBars == 50
\* maValues.length > 20 is required of a candidate
MinPoints == 20
\* a composite score that is NaN
NaN == -1
\* bestScore = -Infinity
NegInfinity == -2
totalCombinations == Len(maTypes) * (lengthRange.max - lengthRange.min + 1)

\* the candidates in the order of the two for loops
CandidateAt(i) == [type |-> maTypes[((i - 1) \div (lengthRange.max - lengthRange.min + 1)) + 1], length |-> lengthRange.min + ((i - 1) % (lengthRange.max - lengthRange.min + 1))]

\* number of values SMA.calculate, EMA.calculate and WMA.calculate return for
\* k input values
indicatorCount(k, period) == IF period >= 1 /\ k >= period THEN k - period + 1 ELSE 0

\* calculateMA(prices, type, length).length for n prices of which v are
\* usable; -1 stands for the null of the catch block
maPoints(n, v, type, length) ==
    IF n = 0 \/ length < 1 \/ length > n \/ v < length THEN -1
    ELSE LET first == indicatorCount(v, length)
             second == indicatorCount(first, length)
             third == indicatorCount(second, length)
             wma2 == indicatorCount(v, length)
             hull == indicatorCount(wma2, ISqrt(length))
             result == CASE type = "DEMA" -> IF second = 0 THEN [len |-> first, finite |-> 0]
                                             ELSE [len |-> second, finite |-> second]
                         [] type = "TEMA" -> IF third = 0 THEN [len |-> first, finite |-> 0]
                                             ELSE [len |-> third, finite |-> third]
                         [] type = "HMA" -> [len |-> hull, finite |-> hull]
                         [] OTHER -> [len |-> first, finite |-> first]
         IN IF result.len = 0 THEN -1 ELSE result.finite

\* if (maValues && maValues.length > 20)
hasEnoughPoints(points) == points > MinPoints

\* compositeScore >= bestScore
improvesOrTies(compositeScore, bestScore) ==
    compositeScore # NaN /\ (bestScore = NegInfinity \/ compositeScore >= bestScore)

\* compositeScore > bestScore, false for NaN
improves(compositeScore, bestScore) ==
    compositeScore # NaN /\ (bestScore = NegInfinity \/ compositeScore > bestScore)

\* the score tables distinguish candidates by the parity of their type's
\* position and of their length
ScoreClass(i) == (((i - 1) \div (lengthRange.max - lengthRange.min + 1)) % 2) * 2 + (CandidateAt(i).length % 2) + 1
ScoreValues == {NaN, 400, 700}
ScoreTables == [1..4 -> ScoreValues]

\* the body of the inner loop for candidate i: a candidate with enough points
\* is pushed to results and replaces the best one if its score is greater
testCandidate(i, n, v, table, acc) ==
    IF hasEnoughPoints(maPoints(n, v, CandidateAt(i).type, CandidateAt(i).length))
    THEN [results |-> Append(acc.results, i),
          bestScore |-> IF improves(table[ScoreClass(i)], acc.bestScore)
                        THEN table[ScoreClass(i)] ELSE acc.bestScore,
          bestConfig |-> IF improves(table[ScoreClass(i)], acc.bestScore)
                         THEN i ELSE acc.bestConfig]
    ELSE acc

\* the two for loops over the candidates lo..hi, in order: the first half,
\* then the second half from where the first half ended
RECURSIVE scanCandidates(_, _, _, _, _, _)
scanCandidates(lo, hi, n, v, table, acc) ==
    IF lo > hi THEN acc
    ELSE IF lo = hi THEN testCandidate(lo, n, v, table, acc)
    ELSE CHOOSE done \in {scanCandidates(((lo + hi) \div 2) + 1, hi, n, v, table, half) :
                              half \in {scanCandidates(lo, (lo + hi) \div 2, n, v, table, acc)}} : TRUE

\* optimizeMAParameters(historicalData, timeframe): error is the message of
\* the Error thrown, "none" when bestConfig is returned
optimizeMAParameters(n, v, table) ==
    IF n < MinBars
    THEN [error |-> "Insufficient historical data for optimization", bestConfig |-> 0,
          score |-> NegInfinity, allResults |-> <<>>]
    ELSE LET acc == scanCandidates(1, totalCombinations, n, v, table,
                        [results |-> <<>>, bestScore |-> NegInfinity, bestConfig |-> 0])
         IN IF acc.bestConfig = 0
            THEN [error |-> "No valid MA configuration found", bestConfig |-> 0,
                  score |-> NegInfinity, allResults |-> acc.results]
            ELSE [error |-> "none", bestConfig |-> acc.bestConfig, score |-> acc.bestScore,
                  allResults |-> acc.results]

\* numbers of bars supplied, 0 also for a missing array
PassBars == {0, 49, 50, 51, 70}
\* bars whose close is not a positive finite number
PassInvalid == {0, 1, 70}
MaxPasses == 2

InitPass ==
    /\ BotIdle
    /\ \E n \in PassBars, bad \in PassInvalid, table \in ScoreTables :
          call = [fn |-> "optimizeMAParameters", bars |-> n, valid |-> Max(0, n - bad),
                  table |-> table, runs |-> <<>>]

\* one call of optimizeMAParameters on the bars of the state
OptimizePass ==
    /\ call.fn = "optimizeMAParameters"
    /\ Len(call.runs) < MaxPasses
    /\ \E result \in {optimizeMAParameters(call.bars, call.valid, call.table)} :
          call' = [call EXCEPT !.runs = Append(call.runs, result)]
    /\ UNCHANGED <<pc, exitCode, brokerPositions, configVars, historicalData, isRunning,
                   loopVars, last, tpsl>>

NextPass == OptimizePass

SpecPass == InitPass /\ [][NextPass]_vars

\* points of candidate i on the bars of the state
PointsOf(i) == maPoints(call.bars, call.valid, CandidateAt(i).type, CandidateAt(i).length)
\* candidates with a finite score among those the pass kept in allResults
FiniteScored(run) == {i \in {run.allResults[k] : k \in 1..Len(run.allResults)} : call.table[ScoreClass(i)] # NaN}

Tested(run) == {run.allResults[k] : k \in 1..Len(run.allResults)}
AllCandidates == 1..totalCombinations

\* C18 as stated: the pass fails exactly when fewer than 50 bars are given or
\* when every combination was skipped; a combination with fewer than 20
\* usable points or a non-finite score is skipped without aborting the pass,
\* and a combination with at least 20 usable points is scored.
C18_ScoredFromTwenty ==
    call.fn = "optimizeMAParameters" =>
        \A k \in 1..Len(call.runs) :
            /\ call.runs[k].error = "Insufficient historical data for optimization"
                  <=> call.bars < MinBars
            /\ call.runs[k].error = "No valid MA configuration found"
                  <=> /\ call.bars >= MinBars
                      /\ \A i \in AllCandidates :
                            PointsOf(i) < 20 \/ call.table[ScoreClass(i)] = NaN
            /\ call.bars >= MinBars =>
                  \A i \in AllCandidates : i \in Tested(call.runs[k]) <=> PointsOf(i) >= 20

\* what the pass does instead: the threshold is strict, a combination with
\* exactly 20 usable points is skipped and one with 21 is scored
PassScoresAboveTwenty ==
    call.fn = "optimizeMAParameters" =>
        \A k \in 1..Len(call.runs) :
            /\ call.runs[k].error = "Insufficient historical data for optimization"
                  <=> call.bars < MinBars
            /\ call.runs[k].error = "No valid MA configuration found"
                  <=> /\ call.bars >= MinBars
                      /\ \A i \in AllCandidates :
                            PointsOf(i) <= 20 \/ call.table[ScoreClass(i)] = NaN
            /\ call.runs[k].error = "none"
                  <=> /\ call.bars >= MinBars
                      /\ \E i \in AllCandidates :
                            PointsOf(i) > 20 /\ call.table[ScoreClass(i)] # NaN
            /\ call.bars >= MinBars =>
                  \A i \in AllCandidates : i \in Tested(call.runs[k]) <=> PointsOf(i) > 20

\* a pass on at least 50 bars that returned a configuration although one
\* combination had exactly 20 points and was skipped, one had 21 and was
\* scored, and one had a non-finite score
PassSkipsAtTwenty ==
    /\ call.fn = "optimizeMAParameters"
    /\ Len(call.runs) >= 1
    /\ call.bars >= MinBars
    /\ call.runs[1].error = "none"
    /\ \E i \in AllCandidates : PointsOf(i) = 20 /\ i \notin Tested(call.runs[1])
    /\ \E i \in AllCandidates : PointsOf(i) = 21 /\ i \in Tested(call.runs[1])
    /\ \E i \in Tested(call.runs[1]) : call.table[ScoreClass(i)] = NaN

\* 50 bars or more with every combination skipped
PassEverySkipped ==
    /\ call.fn = "optimizeMAParameters"
    /\ Len(call.runs) >= 1
    /\ call.runs[1].error = "No valid MA configuration found"

(***************************************************************************)
(* calculateSignals() as a function of its arguments: the whole result     *)
(* record, for price arrays that are missing, too short, or hold prices    *)
(* that are not positive numbers (0 stands for every such price)           *)
(***************************************************************************)
\* if (!prices || !Array.isArray(prices) || prices.length < maLength + 1)
insufficientDataLoose(prices, maLength) ==
    ~prices.isArray \/ Len(prices.values) < maLength + 1

\* if (!prices || !Array.isArray(prices) || prices.length < maLength + 2)
insufficientData(prices, maLength) ==
    ~prices.isArray \/ Len(prices.values) < maLength + 2

\* validatePriceData: typeof value === 'number' && !isNaN && isFinite && value > 0
validatePriceData(values) == \A k \in 1..Len(values) : values[k] > 0

\* validPrices of calculateMA
RECURSIVE validPricesOf(_)
validPricesOf(prices) ==
    IF prices = <<>> THEN <<>>
    ELSE IF Head(prices) > 0 THEN <<Head(prices)>> \o validPricesOf(Tail(prices))
    ELSE validPricesOf(Tail(prices))

\* calculateMA(prices, 'SMA', length) with its validation: <<>> stands for
\* the null of the catch block; the values are window sums
calculateValidMA(prices, length) ==
    IF Len(prices) = 0 \/ length < 1 \/ length > Len(prices) THEN <<>>
    ELSE IF Len(validPricesOf(prices)) < length THEN <<>>
    ELSE calculateMA(validPricesOf(prices), length)

\* the crossover test of calculateSignals on the last two prices and MA values
crossoverOf(prices, maValues, maLength) == detectCrossover(prices[Len(prices) - 1] * maLength, prices[Len(prices)] * maLength, maValues[Len(maValues) - 1], maValues[Len(maValues)])

\* calculateSignals(prices, maType, maLength, candleData): action, valid,
\* reason and pending of the record returned; candleData is "none", or the
\* outcome of validateCandleClose ("closed" when it confirms)
signalOf(prices, maType, maLength, candleData) ==
    IF insufficientData(prices, maLength)
    THEN [action |-> "HOLD", valid |-> FALSE, reason |-> "Insufficient data", pending |-> FALSE]
    ELSE IF maType = "" \/ maLength = 0
    THEN [action |-> "HOLD", valid |-> FALSE, reason |-> "Invalid MA parameters", pending |-> FALSE]
    ELSE IF Len(calculateValidMA(prices.values, maLength)) < 2
    THEN [action |-> "HOLD", valid |-> FALSE, reason |-> "Invalid MA calculation", pending |-> FALSE]
    ELSE IF ~validatePriceData(<<prices.values[Len(prices.values)], prices.values[Len(prices.values) - 1]>> \o SliceLast(calculateValidMA(prices.values, maLength), 2))
    THEN [action |-> "HOLD", valid |-> FALSE, reason |-> "Invalid price or MA values", pending |-> FALSE]
    ELSE IF candleData = "open"
    THEN [action |-> "HOLD", valid |-> TRUE, reason |-> "Waiting for candle close confirmation", pending |-> TRUE]
    ELSE IF crossoverOf(prices.values, calculateValidMA(prices.values, maLength), maLength) # "NONE"
    THEN [action |-> crossoverOf(prices.values, calculateValidMA(prices.values, maLength), maLength), valid |-> TRUE, reason |-> "crossover", pending |-> FALSE]
    ELSE [action |-> "HOLD", valid |-> TRUE, reason |-> "No crossover detected", pending |-> FALSE]

\* prices of a feed; 0 for a price that is not a positive finite number
SignalPrices == {0, 9700, 10000}
\* longest price array
MaxSignalLen == MaLength + 3
RECURSIVE SeqsUpTo(_, _)
SeqsUpTo(S, n) == IF n = 0 THEN {<<>>} ELSE SeqsUpTo(S, n - 1) \cup {Append(q, x) : q \in {r \in SeqsUpTo(S, n - 1) : Len(r) = n - 1}, x \in S}
SignalArguments ==
    [fn : {"calculateSignals"},
     prices : ([isArray : {TRUE}, values : SeqsUpTo(SignalPrices, MaxSignalLen)]
               \cup {[isArray |-> FALSE, values |-> <<>>]}),
     maType : {"SMA", ""},
     maLength : {0, MaLength, MaLength + 1},
     candleData : {"none", "closed", "open"},
     done : {FALSE},
     result : {[action |-> "", valid |-> FALSE, reason |-> "", pending |-> FALSE]}]

InitSignal == BotIdle /\ call \in SignalArguments

CallSignals ==
    /\ call.fn = "calculateSignals"
    /\ ~call.done
    /\ call' = [call EXCEPT !.done = TRUE,
                            !.result = signalOf(call.prices, call.maType, call.maLength,
                                                call.candleData)]
    /\ UNCHANGED <<pc, exitCode, brokerPositions, configVars, historicalData, isRunning,
                   loopVars, last, tpsl>>

NextSignal == CallSignals

SpecSignal == InitSignal /\ [][NextSignal]_vars

\* C19: with no price array or fewer than length + 2 prices the result is
\* HOLD with valid = false and the reason "Insufficient data"; a result
\* record is returned, nothing is thrown.
C19_HoldOnShortHistory ==
    (/\ call.fn = "calculateSignals"
     /\ call.done
     /\ (~call.prices.isArray \/ Len(call.prices.values) < call.maLength + 2)) =>
        /\ call.result.action = "HOLD"
        /\ ~call.result.valid
        /\ call.result.reason = "Insufficient data"

\* a call with exactly length + 1 usable prices that would otherwise cross
C19_Witness ==
    /\ call.fn = "calculateSignals"
    /\ call.done
    /\ call.maLength = MaLength
    /\ call.maType = "SMA"
    /\ call.prices.isArray
    /\ Len(call.prices.values) = call.maLength + 1
    /\ validatePriceData(call.prices.values)
    /\ call.prices.values[Len(call.prices.values)] > call.prices.values[1]
    /\ call.result.action = "HOLD"

\* the comparisons of the claim on the last two prices and the last two
\* averages of the call (averages as window sums, prices scaled alike)
PrevPrice == call.prices.values[Len(call.prices.values) - 1] * call.maLength
CurrentPrice == call.prices.values[Len(call.prices.values)] * call.maLength
PrevMA == SumSeq(SubSeq(call.prices.values, Len(call.prices.values) - call.maLength, Len(call.prices.values) - 1))
CurrentMA == SumSeq(SubSeq(call.prices.values, Len(call.prices.values) - call.maLength + 1, Len(call.prices.values)))
Bullish == PrevPrice <= PrevMA /\ CurrentPrice > CurrentMA
Bearish == PrevPrice >= PrevMA /\ CurrentPrice < CurrentMA
\* enough positive prices, a type and a length, and no candle still open
ValidSignalInput ==
    /\ call.fn = "calculateSignals"
    /\ call.done
    /\ call.prices.isArray
    /\ call.maType # ""
    /\ call.maLength > 0
    /\ Len(call.prices.values) >= call.maLength + 2
    /\ validatePriceData(call.prices.values)
    /\ call.candleData # "open"

\* C20: for valid input the action is BUY exactly when prevPrice <= prevMA
\* and currentPrice > currentMA, SELL exactly when prevPrice >= prevMA and
\* currentPrice < currentMA, and HOLD otherwise; the two conditions never
\* hold together.
C20_ActionMatchesCrossover ==
    ValidSignalInput =>
        /\ call.result.valid
        /\ call.result.action = "BUY" <=> Bullish
        /\ call.result.action = "SELL" <=> Bearish
        /\ call.result.action = "HOLD" <=> (~Bullish /\ ~Bearish)
        /\ ~(Bullish /\ Bearish)

\* a BUY given for a previous price equal to the previous average
C20_Witness ==
    /\ ValidSignalInput
    /\ PrevPrice = PrevMA
    /\ call.result.action = "BUY"

(***************************************************************************)
(* The trading loop again: what a tick leaves behind                       *)
(***************************************************************************)
\* the MA the loop computes on the history that ends with the last price
LastMA == calculateCurrentMA(priceHistory)

RelationAtReached == pc = "trading" /\ last.kind = "trade" /\ previousPriceVsMA = "at"

\* C26: the pause after a tick is 1 second when a Position is held at the end
\* of the tick, the tick on which the buy filled included, and 30 seconds
\* when no Position is held at the end of the tick.
C26_PauseFollowsPosition ==
    (pc = "trading" /\ last.kind \in TickKinds) =>
        last.sleep = IF position # NoPosition THEN 1000 ELSE 30000

\* C28: the tick on which the countdown reaches zero submits no buy; with the
\* baseline tick as tick 1 that tick is tick 11, and no tick before tick 12
\* submits a buy.
C28_FirstBuyOnTickTwelve ==
    (pc = "trading" /\ last.kind \in TickKinds) =>
        /\ last.kind = "baseline" <=> last.tick = 1
        /\ last.kind = "ready" <=> last.tick = 11
        /\ last.kind = "ready" => (last.buy = "none" /\ initializationWaitTicks = 0)
        /\ last.tick < 11 => initializationWaitTicks > 0
        /\ last.buy # "none" => last.tick >= 12

\* a buy submitted on tick 12, after a countdown tick that ended below the MA
C28_Witness ==
    /\ pc = "trading"
    /\ last.kind = "trade"
    /\ last.tick = 12
    /\ last.buy # "none"
    /\ last.prevBefore = "below"

\* C29: on every tick that starts with a Position the exit condition is
\* evaluated: the volatility filter does not take the tick, on any
\* timeframe, and a sell is submitted exactly when the condition holds.
C29_ExitAlwaysEvaluated ==
    (pc = "trading" /\ last.kind \in TickKinds /\ last.heldBefore) =>
        /\ last.kind = "trade"
        /\ ~FilterTripped
        /\ last.sell # "none" <=> ExitHit

\* a Position held on a filtered timeframe whose exit condition was met
C29_Witness ==
    /\ pc = "trading"
    /\ last.kind = "trade"
    /\ last.heldBefore
    /\ currentTimeframe \in {"1m", "5m"}
    /\ ExitHit
    /\ last.sell # "none"

(***************************************************************************)
(* The loop after the countdown with enough bars for the ATR: the buy      *)
(* branch chooses between calculateOptimalTPSL and the flat percentages    *)
(***************************************************************************)
\* this.historicalData: AtrPeriod + 1 bars, flat or swinging, narrow or wide
BuySeries == {SpreadSeries(pattern, spread, AtrPeriod + 1) : pattern \in {<<10000>>, <<9700, 10000, 10300>>}, spread \in {20, 100}}

\* the loop when the countdown has just ended; the window holds the latest closes
InitBuy ==
    /\ pc = "trading"
    /\ exitCode = -1
    /\ brokerPositions = {}
    /\ currentTimeframe \in Timeframes
    /\ useMLRisk \in BOOLEAN
    /\ positionSizing \in {"ml", "manual"}
    /\ historicalData \in BuySeries
    /\ isRunning = TRUE
    /\ position = NoPosition
    /\ heldCount = 0
    /\ priceHistory = [i \in 1..PriceHistoryCap |-> historicalData[Len(historicalData) - PriceHistoryCap + i].close]
    /\ previousPriceVsMA = PriceVsMA(priceHistory[Len(priceHistory)], calculateCurrentMA(priceHistory))
    /\ initializationWaitTicks = 0
    /\ initializationComplete = TRUE
    /\ last = [NoLog EXCEPT !.kind = "ready", !.tick = InitializationWaitTicks + 1]
    /\ tpsl = NoCall
    /\ call = Idle

NextBuy == Tick

SpecBuy == InitBuy /\ [][NextBuy]_vars

\* stopLoss and takeProfit of calculateOptimalTPSL for the last price
LastOptimalTPSL == calculateOptimalTPSL(historicalData, last.price, 0, currentTimeframe)

\* C30: with ML-adaptive TP/SL chosen at startup every Position opened has
\* the stopLoss and takeProfit calculateOptimalTPSL returns, whatever the
\* position sizing mode; the flat percentages are used in manual mode only.
C30_AdaptiveTPSLUsed ==
    (pc = "trading" /\ last.kind = "trade" /\ last.buyOk) =>
        IF useMLRisk
        THEN /\ position.stopLoss = LastOptimalTPSL.stopLoss
             /\ position.takeProfit = LastOptimalTPSL.takeProfit
        ELSE /\ position.stopLoss = Div(last.price * (100000 - botStopLossPercent), 100)
             /\ position.takeProfit = Div(last.price * (100000 + Div(botStopLossPercent * botRiskRewardRatio, 1000)), 100)

\* the same for each startup choice but ML TP/SL with manual sizing
AdaptiveTPSLWithMLSizing == (useMLRisk /\ positionSizing = "manual") \/ C30_AdaptiveTPSLUsed
\* a Position opened from calculateOptimalTPSL's ATR path
AdaptiveBuyReached ==
    /\ pc = "trading" /\ last.kind = "trade" /\ last.buyOk /\ useMLRisk
    /\ LastOptimalTPSL.method = "ml-atr-fees"
    /\ position.stopLoss = LastOptimalTPSL.stopLoss

\* C22: calculateOptimalTPSL returns the fallback (stopLoss = price x 0.985,
\* takeProfit = price x 1.03, confidence 0.5) when and only when fewer than
\* 15 bars are given; with 15 bars or more it takes the ATR path.
C22_FallbackOnlyWhenShort ==
    tpsl.result.method # "none" =>
        /\ tpsl.result.method = "fallback" <=> Len(tpsl.priceData) < 15
        /\ tpsl.result.method = "ml-atr-fees" <=> Len(tpsl.priceData) >= 15
        /\ tpsl.result.method = "fallback" =>
              /\ tpsl.result.stopLoss = tpsl.currentPrice * 985
              /\ tpsl.result.takeProfit = tpsl.currentPrice * 1030
              /\ tpsl.result.confidence = 500

\* the same with bars that never move set aside: an ATR of 0 also falls back
FallbackWhenShortOrFlat ==
    tpsl.result.method # "none" =>
        /\ tpsl.result.method = "fallback"
              <=> (Len(tpsl.priceData) < 15 \/ calculateATR(tpsl.priceData, AtrPeriod) = 0)
        /\ tpsl.result.method = "fallback" =>
              /\ tpsl.result.stopLoss = tpsl.currentPrice * 985
              /\ tpsl.result.takeProfit = tpsl.currentPrice * 1030
              /\ tpsl.result.confidence = 500

\* C24: a tick begins only after every order of the tick before has reached
\* a terminal outcome (filled, canceled or rejected), so the controller has
\* at most one order in flight and none while it holds no Position.
C24_OrderTerminalBeforeNextTick ==
    (pc = "trading" /\ isRunning /\ last.kind \in TickKinds) =>
        /\ last.buy \in {"none", "error", "filled", "canceled", "rejected"}
        /\ last.sell \in {"none", "error", "filled", "canceled", "rejected"}

(***************************************************************************)
(* The start of a loop iteration: the price fetch with its retries and the *)
(* catch block of the loop, step by step                                   *)
(***************************************************************************)
\* error.message of a failed getRealTimePrice: data.js:276 and data.js:321,
\* an HTTP error status and a lost connection as axios reports them, and a
\* response without a body (response.data.quotes of undefined)
ErrorMessages == {"Failed to get real-time price for BTC/USD", "Failed to get price for BTC/USD", "Request failed with status code 500", "Network Error", "Cannot read properties of undefined"}

\* error.message.includes('Failed to get') || error.message.includes('Request failed')
criticalMessage(message) == message \in {"Failed to get real-time price for BTC/USD", "Failed to get price for BTC/USD", "Request failed with status code 500"}

\* if (retries >= 3) throw error
retriesExhausted(retries) == retries >= 3

\* iterations followed
MaxIterations == 2
\* a Position bought at 100.00
HeldPosition == [entryPrice |-> 10000, quantity |-> 1, stopLoss |-> 9850000, takeProfit |-> 10300000]

\* the locals at the top of an iteration
NewIteration(n) == [fn |-> "getRealTimePrice", at |-> "fetch", iteration |-> n, retries |-> 0, fetches |-> 0, delays |-> <<>>, message |-> "", backoff |-> 0, positionBefore |-> position, relationBefore |-> previousPriceVsMA]

InitFetch ==
    /\ pc = "trading"
    /\ exitCode = -1
    /\ brokerPositions = {}
    /\ currentTimeframe = "5m"
    /\ useMLRisk = FALSE
    /\ positionSizing = "manual"
    /\ historicalData \in HistoricalSeries
    /\ isRunning = TRUE
    /\ position \in {NoPosition, HeldPosition}
    /\ heldCount = IF position = NoPosition THEN 0 ELSE 1
    /\ priceHistory = [i \in 1..Len(historicalData) |-> historicalData[i].close]
    /\ previousPriceVsMA = PriceVsMA(priceHistory[Len(priceHistory)], calculateCurrentMA(priceHistory))
    /\ initializationWaitTicks = 0
    /\ initializationComplete = TRUE
    /\ last = NoLog
    /\ tpsl = NoCall
    /\ call = NewIteration(1)

\* getRealTimePrice throws: retry after 2 seconds, or rethrow on the third failure
FetchFails ==
    /\ call.fn = "getRealTimePrice"
    /\ call.at = "fetch"
    /\ \E message \in ErrorMessages :
       \E retries \in {call.retries + 1} :
          call' = [call EXCEPT !.retries = retries,
                               !.fetches = call.fetches + 1,
                               !.message = message,
                               !.delays = IF retriesExhausted(retries) THEN call.delays
                                          ELSE Append(call.delays, 2000),
                               !.at = IF retriesExhausted(retries) THEN "caught" ELSE "fetch"]
    /\ UNCHANGED <<pc, exitCode, brokerPositions, configVars, historicalData, isRunning,
                   loopVars, last, tpsl>>

\* getRealTimePrice returns a price: the iteration goes on to the trading logic
FetchSucceeds ==
    /\ call.fn = "getRealTimePrice"
    /\ call.at = "fetch"
    /\ call' = [call EXCEPT !.fetches = call.fetches + 1, !.at = "priced"]
    /\ UNCHANGED <<pc, exitCode, brokerPositions, configVars, historicalData, isRunning,
                   loopVars, last, tpsl>>

\* the catch block of the loop with a critical message: process.exit(1)
CatchCritical ==
    /\ call.fn = "getRealTimePrice"
    /\ call.at = "caught"
    /\ criticalMessage(call.message)
    /\ call' = [call EXCEPT !.at = "exited"]
    /\ pc' = "exited"
    /\ exitCode' = 1
    /\ UNCHANGED <<brokerPositions, configVars, historicalData, isRunning, loopVars, last,
                   tpsl>>

\* the catch block with any other message: sleep(5000), the loop goes on
CatchOther ==
    /\ call.fn = "getRealTimePrice"
    /\ call.at = "caught"
    /\ ~criticalMessage(call.message)
    /\ call' = [call EXCEPT !.at = "slept", !.backoff = 5000]
    /\ UNCHANGED <<pc, exitCode, brokerPositions, configVars, historicalData, isRunning,
                   loopVars, last, tpsl>>

\* while (this.isRunning): the next iteration after a backoff
NextIterationStarts ==
    /\ call.fn = "getRealTimePrice"
    /\ call.at = "slept"
    /\ isRunning
    /\ call.iteration < MaxIterations
    /\ call' = NewIteration(call.iteration + 1)
    /\ UNCHANGED <<pc, exitCode, brokerPositions, configVars, historicalData, isRunning,
                   loopVars, last, tpsl>>

NextFetch == FetchFails \/ FetchSucceeds \/ CatchCritical \/ CatchOther \/ NextIterationStarts

SpecFetch == InitFetch /\ [][NextFetch]_vars

\* the messages that report a failed request or a lost connection
RequestFailureMessages == ErrorMessages \ {"Cannot read properties of undefined"}

\* the retries of one iteration: at most 3 fetches, 2 seconds between them,
\* the error thrown on only after the third failure
RetriesBounded ==
    call.fn = "getRealTimePrice" =>
        /\ call.fetches <= 3
        /\ call.retries <= call.fetches
        /\ Len(call.delays) = Min(call.retries, 2)
        /\ \A k \in 1..Len(call.delays) : call.delays[k] = 2000
        /\ call.at \in {"caught", "slept", "exited"} => (call.retries = 3 /\ call.fetches = 3)
        /\ call.at = "priced" => call.retries = call.fetches - 1
        /\ call.at = "exited" <=> pc = "exited"
        /\ call.at = "exited" => exitCode = 1
        /\ call.at = "slept" =>
              /\ call.backoff = 5000
              /\ isRunning
              /\ position = call.positionBefore
              /\ previousPriceVsMA = call.relationBefore

\* C23: within one iteration the price is fetched at most 3 times with 2
\* seconds between attempts and the error reaches the catch block only after
\* the third failure; there a message that reports a failed request or a
\* lost connection ends the process, and any other leaves the loop running
\* with the Position and the recorded relation as they were, the next
\* iteration following a 5 second pause.
C23_RetryThenCatch ==
    /\ RetriesBounded
    /\ (call.fn = "getRealTimePrice" /\ call.at = "exited") => call.message \in RequestFailureMessages
    /\ (call.fn = "getRealTimePrice" /\ call.at = "slept") => call.message \notin RequestFailureMessages

\* what the catch block does: only the two substrings end the process
CatchBySubstring ==
    /\ (call.fn = "getRealTimePrice" /\ call.at = "exited") => criticalMessage(call.message)
    /\ (call.fn = "getRealTimePrice" /\ call.at = "slept") => ~criticalMessage(call.message)

\* a second iteration that follows a non-critical failure with a Position held
FetchSecondIterationReached ==
    /\ call.fn = "getRealTimePrice"
    /\ call.iteration = 2
    /\ call.at = "priced"
    /\ call.retries = 2
    /\ position = HeldPosition

(***************************************************************************)
(* calculateSignals again: an invalid price anywhere in the series         *)
(***************************************************************************)
\* the call was given an array with a price that is not a positive finite number
HasInvalidPrice ==
    /\ call.prices.isArray
    /\ \E k \in 1..Len(call.prices.values) : call.prices.values[k] <= 0

\* C21: a price series with a non-finite or non-positive value anywhere gives
\* a result with valid = false and action HOLD, never BUY or SELL.
C21_InvalidPriceInvalidates ==
    (call.fn = "calculateSignals" /\ call.done /\ HasInvalidPrice) =>
        /\ ~call.result.valid
        /\ call.result.action = "HOLD"

\* what the code guarantees: an invalid value among the last two prices
\* invalidates the result
InvalidLatestPriceInvalidates ==
    (/\ call.fn = "calculateSignals"
     /\ call.done
     /\ call.prices.isArray
     /\ Len(call.prices.values) >= 2
     /\ \E k \in {Len(call.prices.values) - 1, Len(call.prices.values)} : call.prices.values[k] <= 0) =>
        /\ ~call.result.valid
        /\ call.result.action = "HOLD"

\* a BUY derived from a series with an invalid price before the last two
BuyFromInvalidSeries ==
    /\ call.fn = "calculateSignals"
    /\ call.done
    /\ HasInvalidPrice
    /\ call.result.valid
    /\ call.result.action = "BUY"

(***************************************************************************)
(* The optimizer's result during the trading loop                          *)
(***************************************************************************)
\* allResults.sort((a, b) => b.score - a.score): Array.prototype.sort is
\* stable, so an element moves in front of those with a smaller score only
RECURSIVE insertByScore(_, _)
insertByScore(sorted, config) ==
    IF sorted = <<>> THEN <<config>>
    ELSE IF sorted[Len(sorted)].score >= config.score THEN Append(sorted, config)
    ELSE Append(insertByScore(SubSeq(sorted, 1, Len(sorted) - 1), config), sorted[Len(sorted)])

RECURSIVE sortByScore(_)
sortByScore(results) ==
    IF results = <<>> THEN <<>>
    ELSE insertByScore(sortByScore(SubSeq(results, 1, Len(results) - 1)), results[Len(results)])

\* candidates in the result
ResultCandidates == 3
\* composite scores of the candidates
ResultScores == {400, 700}

\* the first candidate with the greatest score of results
RECURSIVE bestOf(_)
bestOf(results) ==
    IF Len(results) = 1 THEN results[1]
    ELSE LET before == bestOf(SubSeq(results, 1, Len(results) - 1))
         IN IF improves(results[Len(results)].score, before.score) THEN results[Len(results)] ELSE before

\* what optimizeMAParameters returns: bestConfig with allResults in the order
\* of the two loops
StrategyResults ==
    { [fn |-> "optimizedStrategy", type |-> bestOf(results).type, length |-> bestOf(results).length, score |-> bestOf(results).score, allResults |-> results, created |-> results] :
        results \in { [i \in 1..ResultCandidates |-> [type |-> CandidateAt(i).type, length |-> CandidateAt(i).length, score |-> scores[i]]] : scores \in [1..ResultCandidates -> ResultScores] } }

\* the loop of startTrading() right after optimizeStrategy()
InitResult ==
    /\ pc = "trading"
    /\ exitCode = -1
    /\ brokerPositions = {}
    /\ currentTimeframe = "5m"
    /\ useMLRisk = FALSE
    /\ positionSizing = "manual"
    /\ historicalData = SeriesOf(<<9700, 10000, 9700, 10300>>, HistLen)
    /\ isRunning = TRUE
    /\ position = NoPosition
    /\ heldCount = 0
    /\ priceHistory = [i \in 1..Len(historicalData) |-> historicalData[i].close]
    /\ previousPriceVsMA = "null"
    /\ initializationWaitTicks = InitializationWaitTicks
    /\ initializationComplete = FALSE
    /\ last = NoLog
    /\ tpsl = NoCall
    /\ call \in StrategyResults

\* an iteration with its display of the top 3 MAs
TickWithTopThree ==
    /\ call.fn = "optimizedStrategy"
    /\ TickBody
    /\ call' = IF initializationComplete
               THEN [call EXCEPT !.allResults = sortByScore(call.allResults)]
               ELSE call

NextResult == TickWithTopThree

SpecResult == InitResult /\ [][NextResult]_vars

\* C27: the loop never changes the StrategyResult: the winning configuration,
\* its score and allResults, in the order of the optimizer's iteration, are
\* after any number of ticks what optimizeMAParameters returned.
C27_ResultNeverMutated ==
    call.fn = "optimizedStrategy" =>
        /\ call.allResults = call.created
        /\ call.type = bestOf(call.created).type
        /\ call.length = bestOf(call.created).length
        /\ call.score = bestOf(call.created).score

\* what the loop keeps: the winner, and the candidates as a collection
ResultKeptUpToOrder ==
    call.fn = "optimizedStrategy" =>
        /\ call.type = bestOf(call.created).type
        /\ call.length = bestOf(call.created).length
        /\ call.score = bestOf(call.created).score
        /\ Len(call.allResults) = Len(call.created)
        /\ \A i \in 1..Len(call.created) : \E j \in 1..Len(call.allResults) : call.allResults[j] = call.created[i]
        /\ ~initializationComplete => call.allResults = call.created

\* a tick after the countdown that reordered allResults
ResultReordered ==
    /\ call.fn = "optimizedStrategy"
    /\ last.kind = "trade"
    /\ call.allResults # call.created
    /\ call.allResults[1].score = 700
    /\ call.created[1].score = 400

====
